---------------------------- MODULE Spec2Model ----------------------------
(***************************************************************************)
(* State-machine model of the hero animation code of Rss_v2.2.             *)
(*                                                                         *)
(* src/src/components/react/Hero.jsx holds two components, and a behaviour  *)
(* of Spec mounts one of them:                                             *)
(*   InteractiveNetwork  the comet network engine driven by GSAP (lines    *)
(*                       261-579);                                         *)
(*   Hero                the older component with its own canvas loop      *)
(*                       (lines 9-222), of which the model holds the star  *)
(*                       field, the resize listener and the lifecycle.     *)
(*                                                                         *)
(* JavaScript runs every handler to completion, so each handler (effect,   *)
(* cleanup, event listener, ticker callback, tween callback) is one atomic *)
(* action.  The GSAP tween scheduler, the GSAP ticker and the window are   *)
(* not part of the repository: they appear as the environment that decides *)
(* when a handler runs and how far a tween has advanced.                   *)
(*                                                                         *)
(* Numbers are scaled to small integers: canvas coordinates are integer    *)
(* pixels, and a progress value p in [0,1] is the integer p * ProgressScale.*)
(***************************************************************************)
EXTENDS Integers, Sequences, FiniteSets, Bags

\* ------------------------------------------------------------------ bounds

\* Number of AnimatedLine objects alive at the same time: in the active
\* collection, or held by a tween that still runs.
MaxComets == 2
\* Number of ExplosionEffect objects alive at the same time, likewise.
MaxExplosions == 1
\* A line tween's progress takes the values 0, 1/ProgressScale, ..., 1.
ProgressScale == 3
\* An explosion tween's progress takes the values 0, 1/ExplosionScale, ..., 1.
ExplosionScale == 1

\* Number of Explosion objects of the older Hero alive at the same time.
MaxHeroExplosions == 2
\* Number of update() calls after which an Explosion has no particle left
\* (life 1, less 0.04 per update, in the code).
ExplosionLife == 2

\* ------------------------------------------------------- program constants

\* const maxAttempts = 50 in spawnRandomLine
maxAttempts == 50

\* (self.progress - randomDelayFactor * 0.3) / 2.4 of useFallingLetters' onUpdate,
\* for a progress in hundredths and a delay factor in tenths, is
\* (progress - 3 * factor) / FallDivisor.  Fall progress and opacity are kept
\* in units of 1 / FallDivisor, and y, x and rotation in the same units.
FallDivisor == 240
\* gsap.set(letters, {y: 100, opacity: 0})
EntranceOffset == 100

\* ------------------------------------------------------------ input domains

\* Sizes <<width, height>> the canvas' parent element can have.
Sizes == {<<3, 1>>, <<1, 2>>}

\* The palette (a one-colour cut of the four-entry lineColors default).
lineColors == {"coral"}

\* The values of the numPoints prop.
PointCounts == {0, 1, 2}

\* The titles a page can hand to useFallingLetters, as sequences of characters.
Titles == {<<>>, <<" ">>, <<"A">>, <<"A", "B", " ", "C", "D">>}

\* Values self.progress takes in onUpdate, in hundredths; ScrollTrigger reports
\* 0..100, and the handler is a function of any number.
ProgressValues == {-50, 0, 15, 100, 300}

\* The draws of one letter's parameters (lines 72-77, with the default options):
\* randomY in [300, 500), randomX in [-75, 75), randomRotation in [-60, 60),
\* randomDelayFactor in [0, 0.6) and here in tenths.
ParamDraws ==
    {[randomY |-> 300, randomX |-> -75, randomRotation |-> 45, randomDelayFactor |-> 0],
     [randomY |-> 400, randomX |-> 30, randomRotation |-> -60, randomDelayFactor |-> 5]}

\* The props of one mounted InteractiveNetwork, in model units:
\* connectDistance in pixels, cometTailLength in progress steps,
\* lineAnimationDuration and explosionDuration 0 (zero-duration tween) or 1 (a
\* positive duration).
Props ==
    [numPoints : PointCounts,
     connectDistance : {1},
     maxActiveLines : {1},
     lineAnimationDuration : {0, 1},
     cometTailLength : {1, 2},
     pointColorAlpha : {0, 1},
     explosionDuration : {0, 1}]

VARIABLES
    component,         \* which component the page mounts (fixed per behaviour)
    settings,          \* networkSettings (the props), fixed at mount
    canvasSize,        \* <<canvas.width, canvas.height>>
    points,            \* pointsRef.current
    isInitialized,     \* isInitialized.current
    tickerSubs,        \* number of updateNetwork callbacks on gsap.ticker
    spawnTimers,       \* number of live spawnInterval tweens
    resizeListeners,   \* number of handleResize listeners on window
    activeLines,       \* activeLinesRef.current: the AnimatedLine objects, in order
    droppedLines,      \* running tweens of lines dropped from the active lines
    activeExplosions,  \* activeExplosionsRef.current: the ExplosionEffect objects
    droppedExplosions, \* running tweens of explosions dropped from the active ones
    handler,           \* history: the handler the last step ran
    canvasOps,         \* the canvas calls made by the last step (none: no redraw)
    tracing,           \* whether the history field stale is kept (fixed per behaviour)
    \* the older Hero component's effect closure (Hero.jsx lines 30-222)
    heroInitialized,   \* isInitialized.current
    heroSize,          \* <<width, height>>, the logical canvas size
    particles,         \* particles: the Star objects
    heroResizeListeners, \* number of resize listeners on window
    heroExplosions,    \* explosions: per Explosion the updates its particles have left
    heroFrameVisits,   \* history: per explosion at the start of the last frame, its visits
    \* the page's refs and the useFallingLetters hook (useFallingLetters.js)
    refsAttached,      \* whether canvasRef / titleRef / containerRef hold their elements
    titleText,         \* the title's text when the page is mounted (fixed per behaviour)
    titleDom,          \* the child nodes of the title element
    lettersRef,        \* lettersRef.current: indices into titleDom
    letterParams,      \* letterParams of the effect closure that is live
    lettersCleanup,    \* whether the last effect run returned a cleanup still to run
    scrollObservers,   \* number of live ScrollTrigger instances
    edge,              \* "inside" or "left": the side of the trigger's end the scroll is on
    scrollProgress,    \* self.progress of the last onUpdate, in hundredths
    letterStyle,       \* per title node, the style GSAP has set on it
    letterTweens       \* the tweens in flight on letters, oldest first

vars == <<component, settings, canvasSize, points, isInitialized, tickerSubs, spawnTimers,
          resizeListeners, activeLines, droppedLines, activeExplosions,
          droppedExplosions, handler, canvasOps, tracing,
          heroInitialized, heroSize, particles, heroResizeListeners,
          heroExplosions, heroFrameVisits, refsAttached, titleText, titleDom,
          lettersRef, letterParams, lettersCleanup, scrollObservers, edge,
          scrollProgress, letterStyle, letterTweens>>

heroVars == <<heroInitialized, heroSize, particles, heroResizeListeners,
              heroExplosions, heroFrameVisits>>

letterVars == <<titleText, titleDom, lettersRef, letterParams, lettersCleanup,
                scrollObservers, edge, scrollProgress, letterStyle, letterTweens>>

\* ----------------------------------------------------------------- helpers

Max(a, b) == IF a >= b THEN a ELSE b

Min(a, b) == IF a <= b THEN a ELSE b

\* Array.prototype.filter(x => x !== obj) for the object at index i: objects
\* are compared by identity, so only that element goes (i = 0: obj is not in s).
FilterOut(s, i) ==
    IF i = 0 THEN s ELSE [k \in 1..(Len(s) - 1) |-> IF k < i THEN s[k] ELSE s[k + 1]]

\* Math.random() * w for a canvas dimension w, in integer pixels: a value of
\* [0, w), and 0 when w is 0.
RandomBelow(w) == IF w = 0 THEN {0} ELSE 0..(w - 1)

\* Math.floor(Math.random() * n): an index of 0..n-1, and 0 when n is 0.
RandomIndex(n) == IF n = 0 THEN {0} ELSE 0..(n - 1)


\* ------------------------------------------------------------ point cloud

\* Mutant of CreatePoints: never fewer than two points.
CreatePointsAtLeastTwo(size, n) ==
    LET m == IF n < 2 THEN 2 ELSE n
    IN  {pts \in [1..m -> [x : RandomBelow(size[1]), y : RandomBelow(size[2]), id : 0..(m - 1)]] :
            \A i \in 1..m : pts[i].id = i - 1}

\* createPoints: numPoints points {x, y, id}, x below canvas.width and y below
\* canvas.height (radius is the constant pointRadius and is not stored).
CreatePoints(size, n) ==
    {pts \in [1..n -> [x : RandomBelow(size[1]), y : RandomBelow(size[2]), id : 0..(n - 1)]] :
        \A i \in 1..n : pts[i].id = i - 1}

\* points[i] of a JavaScript array: undefined outside 0..length-1.
PointAt(pts, i) == IF i >= 0 /\ i < Len(pts) THEN [def |-> TRUE, p |-> pts[i + 1]]
                   ELSE [def |-> FALSE]

\* Mutant of DistanceExceeds: no two points count as too far apart.
DistanceNeverExceeds(a, b, d) == FALSE

\* getDistance(p1, p2) > d.  getDistance returns Infinity when a point is
\* undefined and sqrt(dx*dx + dy*dy) otherwise; for d >= 0 the comparison
\* sqrt(s) > d is s > d*d.
DistanceExceeds(a, b, d) ==
    IF ~a.def \/ ~b.def THEN TRUE
    ELSE LET dx == a.p.x - b.p.x
             dy == a.p.y - b.p.y
         IN  dx * dx + dy * dy > d * d

\* ------------------------------------------------- spawnRandomLine's search

\* The loop "while (p1Index === p2Index && attempts < maxAttempts)
\* { p2Index = random index; attempts++ }": the values p2Index can end with.
RECURSIVE RetryDistinct(_, _, _, _)
RetryDistinct(n, p1Index, p2Index, attempts) ==
    IF p1Index = p2Index /\ attempts < maxAttempts
    THEN UNION {RetryDistinct(n, p1Index, q, attempts + 1) : q \in RandomIndex(n)}
    ELSE {p2Index}

\* Two fresh random indices followed by the retry loop: the pairs it can leave,
\* tabulated per array length.
DrawPairTable ==
    [n \in PointCounts |->
        UNION {{<<i, j2>> : j2 \in RetryDistinct(n, i, j, 0)} :
                   <<i, j>> \in RandomIndex(n) \X RandomIndex(n)}]

DrawPair(n) == DrawPairTable[n]

\* The distance loop, from the set S of index pairs it can hold when its
\* condition is evaluated with the given attempts count: the pairs it can exit
\* with.  A redraw that ends on equal indices breaks out of the loop.
RECURSIVE DistanceLoop(_, _, _)
DistanceLoop(pts, S, attempts) ==
    LET d        == settings.connectDistance
        goesOn   == {pr \in S : DistanceExceeds(PointAt(pts, pr[1]), PointAt(pts, pr[2]), d)
                                 /\ attempts < maxAttempts}
        again    == DrawPair(Len(pts))
    IN  IF goesOn = {} THEN S
        ELSE (S \ goesOn)
             \cup {pr \in again : pr[1] = pr[2]}
             \cup DistanceLoop(pts, {pr \in again : pr[1] # pr[2]}, attempts + 1)

\* The most index pairs the distance loop's condition (line 493) can pass to
\* getDistance, from the set S of pairs it can hold when the condition is
\* evaluated with the given attempts count.  The final test of line 507 looks
\* at the pair the loop ended with and adds no candidate.
RECURSIVE DistanceTests(_, _, _)
DistanceTests(pts, S, attempts) ==
    LET d        == settings.connectDistance
        goesOn   == {pr \in S : DistanceExceeds(PointAt(pts, pr[1]), PointAt(pts, pr[2]), d)
                                 /\ attempts < maxAttempts}
        again    == {pr \in DrawPair(Len(pts)) : pr[1] # pr[2]}
    IN  IF S = {} THEN 0
        ELSE IF goesOn = {} \/ again = {} THEN 1
        ELSE 1 + DistanceTests(pts, again, attempts + 1)

\* The most candidate pairs one call of spawnRandomLine tests against
\* connectDistance.
SpawnPairsTested(pts) ==
    DistanceTests(pts, {pr \in DrawPair(Len(pts)) : pr[1] # pr[2]}, 0)

\* The index pairs <<p1Index, p2Index>> spawnRandomLine can reach its final
\* test with (lines 480-505); the empty set when it returned at line 489.
SearchOutcomes(pts) ==
    DistanceLoop(pts, {pr \in DrawPair(Len(pts)) : pr[1] # pr[2]}, 0)

\* Mutant of SpawnGuard: the cap on the active lines is not tested.
SpawnGuardNoCap(pts, lines) ==
    ~(Len(pts) < 2)

\* Line 476: the guard of spawnRandomLine (the canvas exists once the engine is
\* initialised).
SpawnGuard(pts, lines) ==
    ~(Len(pts) < 2 \/ Len(lines) >= settings.maxActiveLines)

\* Mutant of PairAccepted: the distance is not tested.
PairAcceptedAnyDistance(pts, pr) ==
    pr[1] # pr[2]

\* Line 507: the final test before a line is created.
PairAccepted(pts, pr) ==
    pr[1] # pr[2]
    /\ ~DistanceExceeds(PointAt(pts, pr[1]), PointAt(pts, pr[2]), settings.connectDistance)


\* ------------------------------------------------------- entities (objects)

\* Mutant of TailStart: the tail start is not clamped at 0.
TailStartUnclamped(headProgress) == headProgress - settings.cometTailLength

\* The tween's onUpdate (line 369), for the headProgress the tween has just set.
TailStart(headProgress) == Max(0, headProgress - settings.cometTailLength)

\* new AnimatedLine(p1, p2) (lines 355-380) up to the start of its tween.
\* tweening: the scheduler still runs the object's tween.
AnimatedLine(p1, p2, color) ==
    [p1 |-> p1, p2 |-> p2, headProgress |-> 0, tailStartProgress |-> 0,
     isVisible |-> TRUE, color |-> color, tweening |-> TRUE]

\* new ExplosionEffect(x, y, color) (lines 313-329), its tween running; radius
\* and opacity follow the tween's progress.  stale is a history field: the
\* explosion comes from a line whose point set a resize had replaced.
ExplosionEffect(x, y, color, stale) ==
    [x |-> x, y |-> y, color |-> color, progress |-> 0, stale |-> stale]

\* The progress an ExplosionEffect can have when its constructor returns: its
\* tween is running, or, for a zero duration, may have been rendered to its
\* end (onComplete included) inside gsap.to.
ExplosionStarts ==
    IF settings.explosionDuration = 0 THEN {0, ExplosionScale} ELSE {0}

\* The explosions with the one pushed last at progress start.
Started(explosions, start) ==
    [explosions EXCEPT ![Len(explosions)].progress = start]

\* The values a render of an explosion's tween can move its progress to.
NextExplosionProgress(e) ==
    IF settings.explosionDuration = 0 THEN {q \in {ExplosionScale} : e.progress < q}
    ELSE (e.progress + 1)..ExplosionScale

\* The explosions whose tween is running.
RunningExplosions(explosions) ==
    Cardinality({i \in 1..Len(explosions) : explosions[i].progress < ExplosionScale})

\* One render of a line's tween that sets headProgress to h and calls onUpdate.
RenderLine(line, h) ==
    [line EXCEPT !.headProgress = h, !.tailStartProgress = TailStart(h)]

\* The values a render of the tween can move headProgress to: any later point
\* of a positive duration, the end at once for a zero duration.
NextHeadProgress(line) ==
    IF settings.lineAnimationDuration = 0 THEN {ProgressScale}
    ELSE (line.headProgress + 1)..ProgressScale

\* The line's onComplete (lines 373-378) for the line at index i of the active
\* lines (0: it is not among them), as the new <<line, activeLines,
\* activeExplosions>>: the line goes invisible, an explosion at its target is
\* pushed and the line is filtered out of the active lines.
OnComplete(line, i, stale) ==
    <<[line EXCEPT !.isVisible = FALSE, !.tweening = FALSE],
      FilterOut(activeLines, i),
      Append(activeExplosions, ExplosionEffect(line.p2.x, line.p2.y, line.color, stale))>>

\* A line dropped from the active lines while its tween runs is reachable from
\* that tween alone: nothing reads its progress or visibility again, and its
\* onComplete uses p2.x, p2.y and color.  The model keeps those, and in stale
\* (when tracing) whether a resize has replaced the points since.
One(obj) == SetToBag({obj})

RECURSIVE Dropped(_, _)
Dropped(lines, stale) ==
    IF lines = <<>> THEN EmptyBag
    ELSE (IF Head(lines).tweening
          THEN One([x |-> Head(lines).p2.x, y |-> Head(lines).p2.y,
                    color |-> Head(lines).color, stale |-> stale])
          ELSE EmptyBag)
         (+) Dropped(Tail(lines), stale)

MarkStale(d) == [d EXCEPT !.stale = tracing]

LinesAlive == Len(activeLines) + BagCardinality(droppedLines)
ExplosionsAlive == Len(activeExplosions) + droppedExplosions

\* ------------------------------------------------ useFallingLetters: the title

\* A child node of the title element: a text node, or a span with its classes.
TextNode(text) == [tag |-> "#text", class |-> {}, text |-> text]
Span(classes, char) == [tag |-> "span", class |-> classes, text |-> <<char>>]

\* The title as rendered: its text in one text node, or, as the page's Hero
\* renders its titles (which hold no space), one span of class letter per
\* character.
Rendered(text) ==
    IF text = <<>> THEN {<<>>}
    ELSE {<<TextNode(text)>>}
         \cup (IF \E i \in 1..Len(text) : text[i] = " " THEN {}
               ELSE {[i \in 1..Len(text) |-> Span({"letter"}, text[i])]})

\* titleElement.textContent
RECURSIVE TextContent(_)
TextContent(dom) ==
    IF dom = <<>> THEN <<>> ELSE Head(dom).text \o TextContent(Tail(dom))

\* titleElement.querySelectorAll('.with') and ('.with:not(.without)'), as the
\* indices of the matching nodes in document order (without = "": no :not).
RECURSIVE Matching(_, _, _, _)
Matching(dom, k, with, without) ==
    IF k > Len(dom) THEN <<>>
    ELSE (IF with \in dom[k].class /\ without \notin dom[k].class THEN <<k>> ELSE <<>>)
         \o Matching(dom, k + 1, with, without)

QuerySelectorAll(dom, with, without) == Matching(dom, 1, with, without)

\* Mutant of WrappedText: a space is wrapped like any other character.
WrappedTextUnmarked(text) ==
    [i \in 1..Len(text) |-> [class |-> "letter", char |-> text[i]]]

\* Lines 38-46: wrappedText, as the class attribute and the character of each
\* span written.
WrappedText(text) ==
    [i \in 1..Len(text) |->
        IF text[i] = " " THEN [class |-> "letter letter--space", char |-> " "]
        ELSE [class |-> "letter", char |-> text[i]]]

\* titleElement.innerHTML = wrappedText (line 47): the spans parsed from it.
ClassList(attribute) ==
    IF attribute = "letter letter--space" THEN {"letter", "letter--space"} ELSE {attribute}

SetInnerHTML(markup) ==
    [i \in 1..Len(markup) |-> Span(ClassList(markup[i].class), markup[i].char)]

\* Mutant of SelectLetters: the spaces are not filtered out.
SelectLettersWithSpaces(dom) == QuerySelectorAll(dom, "letter", "")

\* Line 51: the letters of a title that holds letter spans already.
SelectLetters(dom) == QuerySelectorAll(dom, "letter", "letter--space")

\* Lines 35-52: <<the title's child nodes afterwards, letters>>.
Decompose(dom) ==
    IF Len(QuerySelectorAll(dom, "letter", "")) = 0
    THEN LET wrapped == SetInnerHTML(WrappedText(TextContent(dom)))
         IN  <<wrapped, QuerySelectorAll(wrapped, "letter", "letter--space")>>
    ELSE <<dom, SelectLetters(dom)>>

\* The style of an element GSAP has not touched.
PlainStyle == [y |-> 0, x |-> 0, rotation |-> 0, opacity |-> FallDivisor]

\* ---------------------------------------------------------------- actions

\* The page as mounted, before any effect has run.  The props are those of
\* the InteractiveNetwork; a page with the older Hero mounts none.
Mounted ==
    /\ component \in {"InteractiveNetwork", "Hero", "useFallingLetters"}
    /\ settings \in Props
    /\ titleText \in Titles
    /\ component # "useFallingLetters" => titleText = <<>>
    /\ titleDom \in Rendered(titleText)
    /\ lettersRef = <<>>
    /\ letterParams = <<>>
    /\ lettersCleanup = FALSE
    /\ scrollObservers = 0
    /\ edge = "inside"
    /\ scrollProgress = 0
    /\ letterStyle = [i \in 1..Len(titleDom) |-> PlainStyle]
    /\ letterTweens = <<>>
    /\ component # "InteractiveNetwork" =>
          /\ settings.numPoints = 0
          /\ settings.lineAnimationDuration = 0
          /\ settings.cometTailLength = 1
          /\ settings.pointColorAlpha = 0
          /\ settings.explosionDuration = 1
    /\ canvasSize = <<3, 1>>
    /\ points = <<>>
    /\ isInitialized = FALSE
    /\ tickerSubs = 0
    /\ spawnTimers = 0
    /\ resizeListeners = 0
    /\ activeLines = <<>>
    /\ droppedLines = EmptyBag
    /\ activeExplosions = <<>>
    /\ droppedExplosions = 0
    /\ handler = "none"
    /\ canvasOps = <<>>
    /\ heroInitialized = FALSE
    /\ heroSize = <<0, 0>>
    /\ particles = <<>>
    /\ heroResizeListeners = 0
    /\ heroExplosions = <<>>
    /\ heroFrameVisits = <<>>
    /\ refsAttached = FALSE

\* A page with an InteractiveNetwork whose points are not drawn (pointColor of
\* alpha 0, the default), or with the older Hero.
Init ==
    /\ Mounted
    /\ tracing = FALSE
    /\ component # "useFallingLetters"
    /\ settings.pointColorAlpha = 0
    /\ settings.explosionDuration = 1

\* The last step ran handler h, which made the canvas calls ops.
Ran(h, ops) == handler' = h /\ canvasOps' = ops

\* A handler that returns without touching the engine's state.
NoEffect(h) ==
    /\ Ran(h, <<>>)
    /\ UNCHANGED <<letterVars, refsAttached, heroVars, tracing, component, settings, canvasSize, points, isInitialized, tickerSubs,
                   spawnTimers, resizeListeners, activeLines, droppedLines,
                   activeExplosions, droppedExplosions>>

\* Mutant of HandlesPresent: the effect goes on without looking at its refs.
HandlesAssumed == TRUE

\* Lines 529-530 (and line 37 of the older Hero, line 28 of the hook): the
\* effect returns when a ref it needs holds no element.
HandlesPresent == refsAttached

\* React attaches the rendered elements to the refs.
AttachRefs ==
    /\ ~refsAttached
    /\ refsAttached' = TRUE
    /\ Ran("attachRefs", <<>>)
    /\ UNCHANGED <<letterVars, heroVars, tracing, component, settings, canvasSize, points,
                   isInitialized, tickerSubs, spawnTimers, resizeListeners, activeLines,
                   droppedLines, activeExplosions, droppedExplosions>>

\* Mutant of InitGuard: the mount effect runs whether or not the engine does.
InitGuardOpen == TRUE

\* Line 528: a mount effect that finds the engine running returns at once.
InitGuard == ~isInitialized

\* The mount effect (lines 527-556): resizeCanvas, createPoints, the resize
\* listener, the ticker subscription and the spawn timer.
Initialize ==
    /\ component = "InteractiveNetwork"
    /\ IF ~InitGuard \/ ~HandlesPresent THEN NoEffect("effect")
       ELSE \E size \in Sizes :
            \E pts \in CreatePoints(size, settings.numPoints) :
               /\ isInitialized' = TRUE
               /\ canvasSize' = size
               /\ points' = pts
               /\ resizeListeners' = resizeListeners + 1
               /\ tickerSubs' = tickerSubs + 1
               /\ spawnTimers' = spawnTimers + 1
               /\ Ran("effect", <<>>)
               /\ UNCHANGED <<letterVars, refsAttached, heroVars, tracing, component, settings, activeLines, droppedLines, activeExplosions,
                              droppedExplosions>>

\* Mutant of Teardown: the ticker keeps its updateNetwork callback.
TeardownKeepsTicker ==
    /\ isInitialized
    /\ resizeListeners' = resizeListeners - 1
    /\ spawnTimers' = spawnTimers - 1
    /\ activeLines' = <<>>
    /\ activeExplosions' = <<>>
    /\ droppedLines' = droppedLines (+) Dropped(activeLines, FALSE)
    /\ droppedExplosions' = droppedExplosions + RunningExplosions(activeExplosions)
    /\ isInitialized' = FALSE
    /\ Ran("cleanup", <<>>)
    /\ UNCHANGED <<letterVars, refsAttached, heroVars, tracing, component, settings, canvasSize, points, tickerSubs>>

\* The effect's cleanup (lines 559-566); it exists once an effect run got past
\* its guards and until it has run.  Emptying the collections stops no tween.
Teardown ==
    /\ isInitialized
    /\ resizeListeners' = resizeListeners - 1
    /\ tickerSubs' = tickerSubs - 1
    /\ spawnTimers' = spawnTimers - 1
    /\ activeLines' = <<>>
    /\ activeExplosions' = <<>>
    /\ droppedLines' = droppedLines (+) Dropped(activeLines, FALSE)
    /\ droppedExplosions' = droppedExplosions + RunningExplosions(activeExplosions)
    /\ isInitialized' = FALSE
    /\ Ran("cleanup", <<>>)
    /\ UNCHANGED <<letterVars, refsAttached, heroVars, tracing, component, settings, canvasSize, points>>

\* handleResize (lines 539-544), run for a window resize event while it is
\* registered.  Emptying the collections stops no tween.
HandleResize ==
    /\ resizeListeners > 0
    /\ \E size \in Sizes :
       \E pts \in CreatePoints(size, settings.numPoints) :
            /\ canvasSize' = size
            /\ activeLines' = <<>>
            /\ activeExplosions' = <<>>
            /\ points' = pts
            /\ droppedLines' = BagOfAll(MarkStale, droppedLines) (+) Dropped(activeLines, tracing)
            /\ droppedExplosions' = droppedExplosions + RunningExplosions(activeExplosions)
            /\ Ran("handleResize", <<>>)
            /\ UNCHANGED <<letterVars, refsAttached, heroVars, tracing, component, settings, isInitialized, tickerSubs, spawnTimers,
                           resizeListeners>>

\* Lines 507-510: a new AnimatedLine between the chosen points, pushed onto the
\* active lines.  A tween of duration 0 may be rendered to its end by the
\* scheduler inside the constructor, onUpdate and onComplete included, that is
\* before the push of line 509; otherwise it completes on a later render.
CreateLine(pr) ==
    /\ LinesAlive < MaxComets
    /\ \E color \in lineColors :
       \E inConstructor \in {b \in BOOLEAN : b => settings.lineAnimationDuration = 0} :
         LET line == AnimatedLine(points[pr[1] + 1], points[pr[2] + 1], color)
         IN  IF inConstructor
             THEN /\ ExplosionsAlive < MaxExplosions
                  /\ LET done == OnComplete(RenderLine(line, ProgressScale), 0, FALSE)
                     IN  /\ activeLines' = Append(done[2], done[1])
                         /\ \E start \in ExplosionStarts :
                               activeExplosions' = Started(done[3], start)
             ELSE /\ activeLines' = Append(activeLines, line)
                  /\ UNCHANGED activeExplosions
    /\ Ran("spawnRandomLine", <<>>)
    /\ UNCHANGED <<letterVars, refsAttached, heroVars, tracing, component, settings, canvasSize, points, isInitialized, tickerSubs,
                   spawnTimers, resizeListeners, droppedLines, droppedExplosions>>

\* spawnRandomLine (lines 472-511).
SpawnRandomLine ==
    IF ~SpawnGuard(points, activeLines) THEN NoEffect("spawnRandomLine")
    ELSE \/ /\ \E pr \in DrawPair(Len(points)) : pr[1] = pr[2]
            /\ NoEffect("spawnRandomLine")
         \/ \E pr \in SearchOutcomes(points) :
              IF PairAccepted(points, pr) THEN CreateLine(pr) ELSE NoEffect("spawnRandomLine")

\* The spawn timer's onRepeat (lines 551-556).
SpawnTick ==
    /\ spawnTimers > 0
    /\ SpawnRandomLine

\* The tween scheduler renders the tween of the active line at index i:
\* headProgress moves on, onUpdate runs, and at the end onComplete.
ActiveLineTween(i) ==
    /\ activeLines[i].tweening
    /\ \E h \in NextHeadProgress(activeLines[i]) :
         LET line == RenderLine(activeLines[i], h)
         IN  IF h < ProgressScale
             THEN /\ activeLines' = [activeLines EXCEPT ![i] = line]
                  /\ UNCHANGED activeExplosions
             ELSE /\ ExplosionsAlive < MaxExplosions
                  /\ activeLines' = OnComplete(line, i, FALSE)[2]
                  /\ \E start \in ExplosionStarts :
                        activeExplosions' = Started(OnComplete(line, i, FALSE)[3], start)
    /\ Ran("lineTween", <<>>)
    /\ UNCHANGED <<letterVars, refsAttached, heroVars, tracing, component, settings, canvasSize, points, isInitialized, tickerSubs,
                   spawnTimers, resizeListeners, droppedLines, droppedExplosions>>

\* The tween of a dropped line runs to its end: its onComplete pushes an
\* explosion at the line's target and finds nothing to filter out.
DroppedLineTween(d) ==
    /\ ExplosionsAlive < MaxExplosions
    /\ droppedLines' = droppedLines (-) One(d)
    /\ \E start \in ExplosionStarts :
          activeExplosions' =
             Started(Append(activeExplosions, ExplosionEffect(d.x, d.y, d.color, d.stale)),
                     start)
    /\ Ran("lineTween", <<>>)
    /\ UNCHANGED <<letterVars, refsAttached, heroVars, tracing, component, settings, canvasSize, points, isInitialized, tickerSubs,
                   spawnTimers, resizeListeners, activeLines, droppedExplosions>>

\* The tween scheduler renders the tween of the active explosion at index i; at
\* its end the explosion's onComplete (lines 325-327) filters it out.
ActiveExplosionTween(i) ==
    /\ \E q \in NextExplosionProgress(activeExplosions[i]) :
         activeExplosions' =
            IF q < ExplosionScale
            THEN [activeExplosions EXCEPT ![i].progress = q]
            ELSE FilterOut(activeExplosions, i)
    /\ Ran("explosionTween", <<>>)
    /\ UNCHANGED <<letterVars, refsAttached, heroVars, tracing, component, settings, canvasSize, points, isInitialized, tickerSubs,
                   spawnTimers, resizeListeners, activeLines, droppedLines,
                   droppedExplosions>>

\* The tween of a dropped explosion runs to its end: its onComplete finds
\* nothing to filter out.
DroppedExplosionTween ==
    /\ droppedExplosions > 0
    /\ droppedExplosions' = droppedExplosions - 1
    /\ Ran("explosionTween", <<>>)
    /\ UNCHANGED <<letterVars, refsAttached, heroVars, tracing, component, settings, canvasSize, points, isInitialized, tickerSubs,
                   spawnTimers, resizeListeners, activeLines, droppedLines,
                   activeExplosions>>

\* AnimatedLine.draw's guards (lines 383-396): whether the line draws anything.
\* Coordinates along the line are p1 + d * progress / ProgressScale.
Abs(v) == IF v < 0 THEN -v ELSE v

LineDraws(line) ==
    LET span == line.headProgress - line.tailStartProgress
        dx   == line.p2.x - line.p1.x
        dy   == line.p2.y - line.p1.y
    IN  /\ line.isVisible
        /\ ~(line.headProgress >= ProgressScale /\ line.tailStartProgress >= line.headProgress)
        /\ ~(/\ 10 * Abs(dx * span) < ProgressScale
             /\ 10 * Abs(dy * span) < ProgressScale
             /\ 20 * line.headProgress < ProgressScale)

\* ExplosionEffect.draw's guard (line 332).  Under expo.out the opacity at
\* progress p < 1 is 0.8 * 2^(-10p) and the radius never falls below
\* pointRadius, so the guard lets the draw through when 2^(10p) < 80.
ExplosionDraws(e) ==
    /\ e.progress < ExplosionScale
    /\ 2^(10 * e.progress) < 80^ExplosionScale

\* The canvas calls of one updateNetwork (lines 518-523).
RECURSIVE DrawLines(_)
DrawLines(s) ==
    IF s = <<>> THEN <<>>
    ELSE (IF LineDraws(Head(s)) THEN <<"line">> ELSE <<>>) \o DrawLines(Tail(s))

RECURSIVE DrawExplosions(_)
DrawExplosions(s) ==
    IF s = <<>> THEN <<>>
    ELSE (IF ExplosionDraws(Head(s)) THEN <<"explosion">> ELSE <<>>)
         \o DrawExplosions(Tail(s))

\* Mutant of UpdateNetwork: the explosions are drawn before the lines.
UpdateNetworkExplosionsFirst ==
    <<"clearRect">>
    \o (IF settings.pointColorAlpha = 0 THEN <<>> ELSE [i \in 1..Len(points) |-> "point"])
    \o DrawExplosions(activeExplosions)
    \o DrawLines(activeLines)

UpdateNetwork ==
    <<"clearRect">>
    \o (IF settings.pointColorAlpha = 0 THEN <<>> ELSE [i \in 1..Len(points) |-> "point"])
    \o DrawLines(activeLines)
    \o DrawExplosions(activeExplosions)

\* One tick of gsap.ticker: every subscribed updateNetwork runs.
FrameTick ==
    /\ component = "InteractiveNetwork"
    /\ Ran("tick", IF tickerSubs > 0 THEN UpdateNetwork ELSE <<>>)
    /\ UNCHANGED <<letterVars, refsAttached, heroVars, tracing, component, settings, canvasSize, points, isInitialized, tickerSubs,
                   spawnTimers, resizeListeners, activeLines, droppedLines,
                   activeExplosions, droppedExplosions>>

\* ------------------------------------------- the older Hero component

\* settings.starCount (line 50), in model units.
starCount == 3

\* new Star() (lines 70-78): reset() places it at random on the logical canvas.
\* size, alpha and fade do not bear on its position and are not kept.
Stars(size) == [1..starCount -> [x : RandomBelow(size[1]), y : RandomBelow(size[2])]]

\* The effect (lines 30-212) as far as the canvas goes: the guards, the resize
\* listener, the first resize(), the stars and an empty explosions array.  The
\* first animate() (line 177) finds no explosion: the comets start above the
\* canvas.
HeroEffect ==
    /\ component = "Hero"
    /\ IF heroInitialized \/ ~HandlesPresent
       THEN UNCHANGED heroVars
       ELSE \E size \in Sizes :
            \E stars \in Stars(size) :
               /\ heroInitialized' = TRUE
               /\ heroResizeListeners' = heroResizeListeners + 1
               /\ heroSize' = size
               /\ particles' = stars
               /\ heroExplosions' = <<>>
               /\ heroFrameVisits' = <<>>
    /\ Ran("heroEffect", <<>>)
    /\ UNCHANGED <<letterVars, refsAttached, tracing, component, settings, canvasSize, points, isInitialized,
                   tickerSubs, spawnTimers, resizeListeners, activeLines, droppedLines,
                   activeExplosions, droppedExplosions>>

\* resize (lines 56-65), run for a window resize event while it is registered:
\* it sets width and height, and leaves the stars where they are.
HeroResizeStars(stars, size) == stars

HeroResize ==
    /\ heroResizeListeners > 0
    /\ \E size \in Sizes :
         /\ heroSize' = size
         /\ particles' = HeroResizeStars(particles, size)
    /\ Ran("heroResize", <<>>)
    /\ UNCHANGED <<heroInitialized, heroResizeListeners, heroExplosions, heroFrameVisits>>
    /\ UNCHANGED <<letterVars, refsAttached, tracing, component, settings, canvasSize, points, isInitialized,
                   tickerSubs, spawnTimers, resizeListeners, activeLines, droppedLines,
                   activeExplosions, droppedExplosions>>

\* explosions.forEach((e, i) => { e.update(); e.draw(); if (e.particles.length
\* === 0) explosions.splice(i, 1); }) (lines 171-174).  forEach visits the
\* indices 0..n-1 of the array as it is when each index comes up, n being the
\* length at the start.  arr holds [life, id] per explosion, k is the 1-based
\* index, visits counts the callbacks per explosion of the starting array.
RECURSIVE HeroExplosionLoop(_, _, _, _)
HeroExplosionLoop(arr, k, n, visits) ==
    IF k > n THEN <<arr, visits>>
    ELSE IF k > Len(arr) THEN HeroExplosionLoop(arr, k + 1, n, visits)
    ELSE LET e    == [arr[k] EXCEPT !.life = @ - 1]
             seen == [visits EXCEPT ![e.id] = @ + 1]
         IN  IF e.life = 0
             THEN HeroExplosionLoop(FilterOut(arr, k), k + 1, n, seen)
             ELSE HeroExplosionLoop([arr EXCEPT ![k] = e], k + 1, n, seen)

\* One animate() frame (lines 166-176) as far as the explosions go: the comets'
\* update pushes an Explosion per comet that hits the ground (line 140), then
\* the explosions are updated and drawn.
HeroFrame ==
    /\ heroInitialized
    /\ \E hits \in {h \in 0..1 : Len(heroExplosions) + h <= MaxHeroExplosions} :
         LET pushed == heroExplosions \o [i \in 1..hits |-> ExplosionLife]
             start  == [i \in 1..Len(pushed) |-> [life |-> pushed[i], id |-> i]]
             done   == HeroExplosionLoop(start, 1, Len(start), [i \in 1..Len(start) |-> 0])
         IN  /\ heroExplosions' = [i \in 1..Len(done[1]) |-> done[1][i].life]
             /\ heroFrameVisits' = done[2]
    /\ Ran("animate", <<>>)
    /\ UNCHANGED <<heroInitialized, heroSize, particles, heroResizeListeners>>
    /\ UNCHANGED <<letterVars, refsAttached, tracing, component, settings, canvasSize, points, isInitialized,
                   tickerSubs, spawnTimers, resizeListeners, activeLines, droppedLines,
                   activeExplosions, droppedExplosions>>

\* The effect's cleanup (lines 215-221).
HeroCleanup ==
    /\ heroInitialized
    /\ heroInitialized' = FALSE
    /\ heroResizeListeners' = heroResizeListeners - 1
    /\ Ran("heroCleanup", <<>>)
    /\ UNCHANGED <<heroSize, particles, heroExplosions, heroFrameVisits>>
    /\ UNCHANGED <<letterVars, refsAttached, tracing, component, settings, canvasSize, points, isInitialized,
                   tickerSubs, spawnTimers, resizeListeners, activeLines, droppedLines,
                   activeExplosions, droppedExplosions>>

\* ------------------------------------- useFallingLetters: tweens, handlers

\* Mutant of FallProgress: the difference is not divided by 2.4.
FallProgressUndivided(progress, factor) ==
    Min(FallDivisor, Max(0, ((progress - 3 * factor) * 12) \div 5))

\* Mutant of FallProgress: no upper clamp.
FallProgressUnclamped(progress, factor) == Max(0, progress - 3 * factor)

\* Lines 88-89: letterFallProgress, in units of 1 / FallDivisor.
FallProgress(progress, factor) == Min(FallDivisor, Max(0, progress - 3 * factor))

\* Lines 92-95: the values the tween of one letter is sent to.
FallTarget(params, progress) ==
    LET f == FallProgress(progress, params.randomDelayFactor)
    IN  [y |-> f * params.randomY,
         x |-> f * params.randomX,
         rotation |-> f * params.randomRotation,
         opacity |-> FallDivisor - f]

\* gsap.to(targets, vars): one tween part per target element, each taking the
\* properties props of its element to the values in to.
Tween(kind, letters, to, props) ==
    [kind |-> kind, props |-> props,
     parts |-> [i \in 1..Len(letters) |-> [el |-> letters[i], to |-> to[i]]]]

\* overwrite: true kills every other tween of the new tween's targets.
RECURSIVE KillTweensOf(_, _)
KillTweensOf(tweens, letters) ==
    IF tweens = <<>> THEN <<>>
    ELSE LET left == SelectSeq(Head(tweens).parts,
                               LAMBDA q : \A i \in 1..Len(letters) : letters[i] # q.el)
         IN  (IF left = <<>> THEN <<>> ELSE <<[Head(tweens) EXCEPT !.parts = left]>>)
             \o KillTweensOf(Tail(tweens), letters)

\* A tween that has run to its end has set its properties on its elements.
RECURSIVE TweenDone(_, _, _)
TweenDone(style, parts, props) ==
    IF parts = <<>> THEN style
    ELSE LET q == Head(parts)
         IN  TweenDone([style EXCEPT ![q.el] =
                           [k \in DOMAIN @ |-> IF k \in props THEN q.to[k] ELSE @[k]]],
                       Tail(parts), props)

\* Mutant of OnUpdate: the tweens are started without overwrite.
OnUpdateNoOverwrite(tweens, letters, params, progress) ==
    Append(tweens,
           Tween("update", letters,
                 [i \in 1..Len(letters) |-> FallTarget(params[i], progress)],
                 {"y", "x", "rotation", "opacity"}))

\* onUpdate (lines 84-101) for self.progress = progress, with the parameters
\* params of the closure: the tweens in flight afterwards.
OnUpdate(tweens, letters, params, progress) ==
    Append(KillTweensOf(tweens, letters),
           Tween("update", letters,
                 [i \in 1..Len(letters) |-> FallTarget(params[i], progress)],
                 {"y", "x", "rotation", "opacity"}))

\* onLeave (lines 102-104).
OnLeave(tweens, letters) ==
    Append(tweens, Tween("leave", letters,
                         [i \in 1..Len(letters) |-> [opacity |-> 0]], {"opacity"}))

\* onEnterBack (lines 105-114).
OnEnterBack(tweens, letters) ==
    Append(KillTweensOf(tweens, letters),
           Tween("enterBack", letters, [i \in 1..Len(letters) |-> PlainStyle],
                 {"y", "x", "rotation", "opacity"}))

\* Mutant of ClosureParams: the parameters are drawn again for every update.
RedrawnParams(params) == [1..Len(params) -> ParamDraws]

\* Line 86: the parameters an onUpdate reads are those of its closure,
\* generated at lines 72-77.
ClosureParams(params) == {params}

\* The effect (lines 27-116).  React runs it when no cleanup of an earlier run
\* is outstanding.
LettersEffect ==
    /\ component = "useFallingLetters"
    /\ ~lettersCleanup
    /\ IF ~HandlesPresent THEN UNCHANGED letterVars
       ELSE LET d       == Decompose(titleDom)
                letters == d[2]
                style   == IF d[1] = titleDom THEN letterStyle
                           ELSE [i \in 1..Len(d[1]) |-> PlainStyle]
            IN  /\ titleDom' = d[1]
                /\ lettersRef' = letters
                /\ UNCHANGED titleText
                /\ IF Len(letters) = 0
                   THEN /\ letterStyle' = style
                        /\ UNCHANGED <<letterParams, lettersCleanup, scrollObservers,
                                       edge, scrollProgress, letterTweens>>
                   ELSE \E params \in [1..Len(letters) -> ParamDraws] :
                        /\ letterStyle' =
                              TweenDone(style,
                                        Tween("set", letters,
                                              [i \in 1..Len(letters) |->
                                                  [y |-> EntranceOffset * FallDivisor,
                                                   opacity |-> 0]],
                                              {"y", "opacity"}).parts,
                                        {"y", "opacity"})
                        /\ letterTweens' =
                              Append(letterTweens,
                                     Tween("entrance", letters,
                                           [i \in 1..Len(letters) |->
                                               [y |-> 0, opacity |-> FallDivisor]],
                                           {"y", "opacity"}))
                        /\ letterParams' = params
                        /\ scrollObservers' = scrollObservers + 1
                        /\ edge' = "inside"
                        /\ scrollProgress' = 0
                        /\ lettersCleanup' = TRUE
    /\ Ran("lettersEffect", <<>>)
    /\ UNCHANGED <<refsAttached, heroVars, tracing, component, settings, canvasSize, points,
                   isInitialized, tickerSubs, spawnTimers, resizeListeners, activeLines,
                   droppedLines, activeExplosions, droppedExplosions>>

\* The effect's cleanup (lines 119-127): the ScrollTrigger and the entrance
\* tween are killed; no other tween is.
LettersCleanup ==
    /\ lettersCleanup
    /\ scrollObservers' = scrollObservers - 1
    /\ letterTweens' = SelectSeq(letterTweens, LAMBDA t : t.kind # "entrance")
    /\ lettersRef' = <<>>
    /\ letterParams' = <<>>
    /\ lettersCleanup' = FALSE
    /\ Ran("lettersCleanup", <<>>)
    /\ UNCHANGED <<titleText, titleDom, edge, scrollProgress, letterStyle>>
    /\ UNCHANGED <<refsAttached, heroVars, tracing, component, settings, canvasSize, points,
                   isInitialized, tickerSubs, spawnTimers, resizeListeners, activeLines,
                   droppedLines, activeExplosions, droppedExplosions>>

\* What no scroll callback changes.
ScrollFrame ==
    UNCHANGED <<titleText, titleDom, lettersRef, lettersCleanup, scrollObservers, letterStyle,
                refsAttached, heroVars, tracing, component, settings, canvasSize, points,
                isInitialized, tickerSubs, spawnTimers, resizeListeners, activeLines,
                droppedLines, activeExplosions, droppedExplosions>>

\* The scroll moves within the trigger's region: ScrollTrigger calls onUpdate.
ScrollUpdate(progress) ==
    /\ scrollObservers > 0
    /\ edge = "inside"
    /\ \E params \in ClosureParams(letterParams) :
         /\ letterTweens' = OnUpdate(letterTweens, lettersRef, params, progress)
         /\ letterParams' = params
    /\ scrollProgress' = progress
    /\ UNCHANGED edge
    /\ Ran("onUpdate", <<>>)
    /\ ScrollFrame

\* The scroll passes the trigger's end going forward: in one update
\* ScrollTrigger calls onUpdate with progress 1 and then onLeave.
ScrollLeave ==
    /\ scrollObservers > 0
    /\ edge = "inside"
    /\ letterTweens' = OnLeave(OnUpdate(letterTweens, lettersRef, letterParams, 100), lettersRef)
    /\ scrollProgress' = 100
    /\ edge' = "left"
    /\ UNCHANGED letterParams
    /\ Ran("onLeave", <<>>)
    /\ ScrollFrame

\* The scroll comes back over the trigger's end: in one update ScrollTrigger
\* calls onUpdate with the new progress and then onEnterBack.
ScrollEnterBack(progress) ==
    /\ scrollObservers > 0
    /\ edge = "left"
    /\ progress >= 0 /\ progress < 100
    /\ letterTweens' =
          OnEnterBack(OnUpdate(letterTweens, lettersRef, letterParams, progress), lettersRef)
    /\ scrollProgress' = progress
    /\ edge' = "inside"
    /\ UNCHANGED letterParams
    /\ Ran("onEnterBack", <<>>)
    /\ ScrollFrame

\* The tween scheduler renders the oldest tween on the letters to its end.
LetterTweenStep ==
    /\ letterTweens # <<>>
    /\ letterStyle' = TweenDone(letterStyle, Head(letterTweens).parts, Head(letterTweens).props)
    /\ letterTweens' = Tail(letterTweens)
    /\ Ran("letterTween", <<>>)
    /\ UNCHANGED <<titleText, titleDom, lettersRef, letterParams, lettersCleanup,
                   scrollObservers, edge, scrollProgress>>
    /\ UNCHANGED <<refsAttached, heroVars, tracing, component, settings, canvasSize, points,
                   isInitialized, tickerSubs, spawnTimers, resizeListeners, activeLines,
                   droppedLines, activeExplosions, droppedExplosions>>

Next ==
    \/ Initialize
    \/ Teardown
    \/ HandleResize
    \/ SpawnTick
    \/ \E i \in 1..Len(activeLines) : ActiveLineTween(i)
    \/ \E d \in BagToSet(droppedLines) : DroppedLineTween(d)
    \/ \E i \in 1..Len(activeExplosions) : ActiveExplosionTween(i)
    \/ DroppedExplosionTween
    \/ FrameTick
    \/ HeroEffect
    \/ HeroCleanup
    \/ HeroResize
    \/ HeroFrame
    \/ AttachRefs

Spec == Init /\ [][Next]_vars

\* The same engine with the history field stale kept.
InitTraced ==
    /\ Mounted
    /\ tracing = TRUE
    /\ component # "useFallingLetters"
    /\ settings.pointColorAlpha = 0
    /\ settings.explosionDuration = 1

SpecTraced == InitTraced /\ [][Next]_vars

\* The page with any of the three components: the hook on each of the titles,
\* the older Hero, or an InteractiveNetwork with one set of props (two points,
\* a positive duration, a tail longer than half the line) whose points are
\* drawn.
PageProps ==
    {p \in Props : /\ p.numPoints = 2
                   /\ p.lineAnimationDuration = 1
                   /\ p.cometTailLength = 2
                   /\ p.pointColorAlpha = 1
                   /\ p.explosionDuration = 1}

InitPage ==
    /\ Mounted
    /\ tracing = FALSE
    /\ component = "InteractiveNetwork" => settings \in PageProps

NextPage ==
    \/ Next
    \/ LettersEffect
    \/ LettersCleanup
    \/ \E progress \in ProgressValues : ScrollUpdate(progress)
    \/ ScrollLeave
    \/ \E progress \in ProgressValues : ScrollEnterBack(progress)
    \/ LetterTweenStep

SpecPage == InitPage /\ [][NextPage]_vars

\* The tween scheduler renders every tween to its end.
SpecPageFair == SpecPage /\ WF_vars(LetterTweenStep)

\* An InteractiveNetwork of two points with a tween of either kind of duration.
NetworkProps ==
    {p \in Props : /\ p.numPoints = 2
                   /\ p.cometTailLength = 2
                   /\ p.pointColorAlpha = 0}

InitNetwork ==
    /\ Mounted
    /\ tracing = FALSE
    /\ component = "InteractiveNetwork"
    /\ settings \in NetworkProps

NextNetwork ==
    \/ AttachRefs
    \/ Initialize
    \/ Teardown
    \/ HandleResize
    \/ SpawnTick
    \/ \E i \in 1..Len(activeLines) : ActiveLineTween(i)
    \/ \E d \in BagToSet(droppedLines) : DroppedLineTween(d)
    \/ \E i \in 1..Len(activeExplosions) : ActiveExplosionTween(i)
    \/ DroppedExplosionTween
    \/ FrameTick

SpecNetwork == InitNetwork /\ [][NextNetwork]_vars

\* self.progress as ScrollTrigger reports it: clamped to 0..1.
ScrollProgressValues == {p \in ProgressValues : p >= 0 /\ p <= 100}

\* The hook alone, on each of the titles, under ScrollTrigger's callbacks.
InitScroll ==
    /\ Mounted
    /\ tracing = FALSE
    /\ component = "useFallingLetters"

NextScroll ==
    \/ AttachRefs
    \/ LettersEffect
    \/ LettersCleanup
    \/ \E progress \in ScrollProgressValues : ScrollUpdate(progress)
    \/ ScrollLeave
    \/ \E progress \in ScrollProgressValues : ScrollEnterBack(progress)
    \/ LetterTweenStep

SpecScroll == InitScroll /\ [][NextScroll]_vars

\* ------------------------------------------------------------------ claims

\* Squared distance of two points.
DistSq(a, b) == (a.x - b.x) * (a.x - b.x) + (a.y - b.y) * (a.y - b.y)

\* C1: in every reachable state the active-comet collection holds at most
\* maxActiveLines comets (so a spawn attempt made at the cap adds nothing).
C1_ActiveLinesBounded ==
    Len(activeLines) <= settings.maxActiveLines

\* A spawn attempt has just run and added nothing, with the collection at the
\* cap, although the points offer an acceptable pair and a line object is free.
C1_Witness ==
    /\ handler = "spawnRandomLine"
    /\ Len(activeLines) = settings.maxActiveLines
    /\ \A i \in 1..Len(activeLines) : activeLines[i].headProgress > 0
    /\ LinesAlive < MaxComets
    /\ \E pr \in SearchOutcomes(points) : PairAccepted(points, pr)

\* C2: every comet in the active collection joins two points of the current
\* point set with different indices that are at most connectDistance apart.
C2_LinesJoinNearDistinctPoints ==
    \A i \in 1..Len(activeLines) :
        LET line == activeLines[i]
        IN  /\ line.p1.id # line.p2.id
            /\ line.p1.id \in 0..(Len(points) - 1)
            /\ line.p2.id \in 0..(Len(points) - 1)
            /\ points[line.p1.id + 1] = line.p1
            /\ points[line.p2.id + 1] = line.p2
            /\ DistSq(line.p1, line.p2) <= settings.connectDistance * settings.connectDistance

\* A spawn has just created a comet between two points that do not coincide.
C2_Witness ==
    /\ handler = "spawnRandomLine"
    /\ \E i \in 1..Len(activeLines) :
          /\ activeLines[i].headProgress = 0
          /\ DistSq(activeLines[i].p1, activeLines[i].p2) > 0

\* C3: after teardown every in-flight comet and explosion tween is stopped, so
\* while the engine is torn down the active comets and the active explosions
\* stay as teardown left them: empty.
C3_TeardownStopsTweens ==
    ~isInitialized => activeLines = <<>> /\ activeExplosions = <<>>

\* C4: teardown takes updateNetwork off the ticker, kills the spawn timer and
\* empties both active collections; while the engine is torn down no step
\* makes a canvas call and the active lines stay empty.
C4_TeardownUnsubscribes ==
    /\ handler = "cleanup" =>
          /\ tickerSubs = 0
          /\ spawnTimers = 0
          /\ activeLines = <<>>
          /\ activeExplosions = <<>>
    /\ ~isInitialized =>
          /\ tickerSubs = 0
          /\ spawnTimers = 0
          /\ activeLines = <<>>
          /\ canvasOps = <<>>

\* The ticker has ticked after a teardown while the active explosions hold an
\* explosion that an updateNetwork would draw.
C4_Witness ==
    /\ handler = "tick"
    /\ ~isInitialized
    /\ \E i \in 1..Len(activeExplosions) : ExplosionDraws(activeExplosions[i])

\* C5: a resize carries nothing over: no active explosion was created at the
\* target of a line that was in flight when a resize replaced the points.
C5_ResizeCarriesNothingOver ==
    \A i \in 1..Len(activeExplosions) : ~activeExplosions[i].stale

\* C6: for every comet in the active lines, from construction to completion,
\* tailStartProgress = max(0, headProgress - cometTailLength), tailStartProgress
\* <= headProgress, and headProgress lies between 0 and 1 (ProgressScale).
C6_TailFollowsHead ==
    \A i \in 1..Len(activeLines) :
        LET line == activeLines[i]
            tail == line.headProgress - settings.cometTailLength
        IN  /\ line.tailStartProgress = (IF tail > 0 THEN tail ELSE 0)
            /\ line.tailStartProgress <= line.headProgress
            /\ 0 <= line.headProgress
            /\ line.headProgress <= ProgressScale

\* A comet in flight whose tail has left the start point.
C6_Witness ==
    \E i \in 1..Len(activeLines) :
        /\ activeLines[i].tweening
        /\ activeLines[i].tailStartProgress > 0
        /\ activeLines[i].headProgress < ProgressScale

\* C7: with lineAnimationDuration = 0 a comet that has completed is invisible
\* and no longer among the active lines, whether its tween completed before or
\* after spawnRandomLine pushed it: every active line is visible.
C7_ZeroDurationLifecycle ==
    settings.lineAnimationDuration = 0 =>
        \A i \in 1..Len(activeLines) : activeLines[i].isVisible

\* C8: an engine with fewer than two points never has a comet, whatever the
\* number of spawn ticks: no active line, no line tween, no explosion.
C8_NoCometsBelowTwoPoints ==
    settings.numPoints < 2 =>
        /\ activeLines = <<>>
        /\ droppedLines = EmptyBag
        /\ activeExplosions = <<>>
        /\ droppedExplosions = 0

\* The spawn timer has just called spawnRandomLine on an engine of one point.
C8_Witness ==
    /\ handler = "spawnRandomLine"
    /\ isInitialized
    /\ settings.numPoints = 1
    /\ Len(points) = 1

\* C9: there is never more than one updateNetwork on the ticker, one spawn
\* timer and one resize listener, and a mount effect that finds the engine
\* running changes neither the points nor the active collections.
C9_DuplicateInitializeIgnored ==
    [][/\ tickerSubs' <= 1
       /\ spawnTimers' <= 1
       /\ resizeListeners' <= 1
       /\ heroResizeListeners' <= 1
       /\ (isInitialized /\ handler' = "effect") =>
             UNCHANGED <<points, canvasSize, activeLines, activeExplosions,
                         droppedLines, droppedExplosions>>
       /\ (heroInitialized /\ handler' = "heroEffect") =>
             UNCHANGED <<particles, heroSize>>]_vars

\* The mount effect has just run on a running engine with a comet in flight.
C9_Witness ==
    /\ handler = "effect"
    /\ isInitialized
    /\ \E i \in 1..Len(activeLines) : activeLines[i].headProgress > 0

\* C10: after the mount effect and after every resize, every point lies on the
\* canvas of the current size, 0 <= x <= width and 0 <= y <= height: the
\* points of the InteractiveNetwork and the stars of the older Hero.
C10_PointsWithinCanvas ==
    /\ isInitialized =>
          \A i \in 1..Len(points) :
              /\ 0 <= points[i].x /\ points[i].x <= canvasSize[1]
              /\ 0 <= points[i].y /\ points[i].y <= canvasSize[2]
    /\ heroInitialized =>
          \A i \in 1..Len(particles) :
              /\ 0 <= particles[i].x /\ particles[i].x <= heroSize[1]
              /\ 0 <= particles[i].y /\ particles[i].y <= heroSize[2]

\* The tween an onUpdate has just started.
LastTween == letterTweens[Len(letterTweens)]

\* C11: the letters' random parameters are generated once per mount and do
\* not change while the effect is live, and every onUpdate sends each letter
\* to the target these parameters give for the progress reported, so updates
\* with the same progress give the same targets.
C11_ParamsStable ==
    [][/\ (lettersCleanup /\ lettersCleanup') => letterParams' = letterParams
       /\ handler' = "onUpdate" =>
             LET started == letterTweens'[Len(letterTweens')]
             IN  /\ Len(started.parts) = Len(lettersRef)
                 /\ \A i \in 1..Len(started.parts) :
                       started.parts[i].to = FallTarget(letterParams[i], scrollProgress')]_vars

\* An onUpdate has just sent every letter to where an earlier update's tween
\* left it, away from the start.
C11_Witness ==
    /\ handler = "onUpdate"
    /\ lettersRef # <<>>
    /\ \A i \in 1..Len(LastTween.parts) :
          /\ LastTween.parts[i].to = letterStyle[LastTween.parts[i].el]
          /\ LastTween.parts[i].to.y > 0

\* C12: for every progress reported to onUpdate, below 0 and above 1
\* included, each letter's fall progress f lies in [0, 1]: the opacity 1 - f
\* lies in [0, 1] and no displacement exceeds the letter's parameter.
C12_FallProgressClamped ==
    handler = "onUpdate" =>
        \A i \in 1..Len(LastTween.parts) :
            LET to == LastTween.parts[i].to
                pr == letterParams[i]
            IN  /\ 0 <= to.opacity /\ to.opacity <= FallDivisor
                /\ 0 <= to.y /\ to.y <= pr.randomY * FallDivisor
                /\ Abs(to.x) <= Abs(pr.randomX) * FallDivisor
                /\ Abs(to.rotation) <= Abs(pr.randomRotation) * FallDivisor

\* An onUpdate has run for a progress above 1 and left every letter transparent.
C12_Witness ==
    /\ handler = "onUpdate"
    /\ lettersRef # <<>>
    /\ scrollProgress > 100
    /\ \A i \in 1..Len(LastTween.parts) : LastTween.parts[i].to.opacity = 0

\* C13: the cleanup cancels the ScrollTrigger and every tween in flight on the
\* letters: while no effect is live there is no ScrollTrigger, and no tween
\* changes the style of a letter.
C13_CleanupCancelsTweens ==
    [][/\ ~lettersCleanup' => scrollObservers' = 0
       /\ (~lettersCleanup /\ handler' = "letterTween") => letterStyle' = letterStyle]_vars

\* The letters of the title, whether or not an effect is live.
TitleLetters == SelectLetters(titleDom)

AllLettersReset ==
    \A i \in 1..Len(TitleLetters) : letterStyle[TitleLetters[i]] = PlainStyle

\* C14: once the scroll has left the region going forward and the tweens have
\* run out, every letter has opacity 0 until an enter-back; and after an
\* enter-back every letter comes back to y 0, x 0, rotation 0, opacity 1,
\* whatever onUpdate tweens were in flight or arrive around the edge event.
C14_EdgeEvents ==
    /\ []((edge = "left" /\ letterTweens = <<>>) =>
             \A i \in 1..Len(TitleLetters) : letterStyle[TitleLetters[i]].opacity = 0)
    /\ (handler = "onEnterBack") ~> AllLettersReset

\* The title holds nothing but spans: it has been decomposed, or was rendered so.
AllSpans == \A k \in 1..Len(titleDom) : titleDom[k].tag = "span"

\* letters lists, in document order, exactly the nodes that are not marked as
\* spaces.
ListsAnimated(letters, dom) ==
    /\ \A i \in 1..Len(letters) : letters[i] \in 1..Len(dom)
    /\ \A i \in 1..(Len(letters) - 1) : letters[i] < letters[i + 1]
    /\ \A k \in 1..Len(dom) :
          ("letter--space" \notin dom[k].class) <=> (\E i \in 1..Len(letters) : letters[i] = k)

\* C15: an effect run with the title at hand leaves one unit per character of
\* the title, in the original order; each space is marked as a space and is
\* not among the animated letters; the units' characters spell the title.
C15_DecomposePreservesText ==
    /\ TextContent(titleDom) = titleText
    /\ (handler = "lettersEffect" /\ refsAttached) => AllSpans
    /\ AllSpans =>
          /\ Len(titleDom) = Len(titleText)
          /\ \A k \in 1..Len(titleDom) :
                /\ titleDom[k].text = <<titleText[k]>>
                /\ "letter" \in titleDom[k].class
                /\ ("letter--space" \in titleDom[k].class) <=> (titleText[k] = " ")
    /\ lettersCleanup =>
          /\ ListsAnimated(lettersRef, titleDom)
          /\ \A i \in 1..Len(lettersRef) : titleText[lettersRef[i]] # " "

\* The effect has just decomposed "AB CD" into five units, four of them animated.
C15_Witness ==
    /\ handler = "lettersEffect"
    /\ titleText = <<"A", "B", " ", "C", "D">>
    /\ Len(titleDom) = 5
    /\ lettersRef = <<1, 2, 4, 5>>
    /\ Len(letterTweens) = 1

\* C16: an effect run on a title that holds letter units already leaves the
\* units as they are and lists the same animated letters, the units that are
\* not spaces, as the first run did.
C16_DecomposeIdempotent ==
    [][(handler' = "lettersEffect" /\ refsAttached /\ AllSpans) =>
          /\ titleDom' = titleDom
          /\ lettersCleanup' => ListsAnimated(lettersRef', titleDom)]_vars

\* The effect has run again on "AB CD" after a cleanup that left a tween of
\* the earlier run in flight.
C16_Witness ==
    /\ handler = "lettersEffect"
    /\ lettersCleanup
    /\ titleText = <<"A", "B", " ", "C", "D">>
    /\ \E i \in 1..Len(letterTweens) : letterTweens[i].kind = "update"

\* The layer of a canvas call: the clear, the points, the lines, the explosions.
Layer(op) ==
    CASE op = "clearRect" -> 0
      [] op = "point" -> 1
      [] op = "line" -> 2
      [] op = "explosion" -> 3

\* C17: a redraw clears the canvas first and once, then draws the points,
\* then the active lines, then the active explosions: no call of a lower
\* layer follows a call of a higher one, and no point is left out.
C17_DrawOrder ==
    canvasOps # <<>> =>
        /\ canvasOps[1] = "clearRect"
        /\ \A i \in 2..Len(canvasOps) : canvasOps[i] # "clearRect"
        /\ \A i \in 1..(Len(canvasOps) - 1) : Layer(canvasOps[i]) <= Layer(canvasOps[i + 1])
        /\ settings.pointColorAlpha # 0 =>
              Cardinality({i \in 1..Len(canvasOps) : canvasOps[i] = "point"}) = Len(points)

\* A redraw has drawn points, a line and an explosion.
C17_Witness ==
    /\ handler = "tick"
    /\ \E i, j, k \in 1..Len(canvasOps) :
          /\ canvasOps[i] = "point"
          /\ canvasOps[j] = "line"
          /\ canvasOps[k] = "explosion"

\* No subscription, timer, listener or observer exists and no engine is marked
\* initialized.
NothingStarted ==
    /\ ~isInitialized /\ tickerSubs = 0 /\ spawnTimers = 0 /\ resizeListeners = 0
    /\ ~heroInitialized /\ heroResizeListeners = 0
    /\ ~lettersCleanup /\ scrollObservers = 0 /\ letterTweens = <<>>

\* C18: as long as the refs hold no element, a run of a mount effect creates
\* no ticker subscription, spawn timer, resize listener or scroll observer and
\* marks nothing initialized; and a run of the effect with the elements
\* present, the engine not running, starts the engine: one subscription, one
\* timer, one listener (for the hook: one observer when the title has a letter).
C18_MissingHandlesNoOp ==
    /\ [](~refsAttached => NothingStarted)
    /\ [][/\ (handler' = "effect" /\ refsAttached /\ ~isInitialized) =>
                (isInitialized' /\ tickerSubs' = 1 /\ spawnTimers' = 1
                    /\ resizeListeners' = 1)
          /\ (handler' = "heroEffect" /\ refsAttached /\ ~heroInitialized) =>
                (heroInitialized' /\ heroResizeListeners' = heroResizeListeners + 1)
          /\ (handler' = "lettersEffect" /\ refsAttached /\ ~lettersCleanup
                 /\ SelectLetters(Decompose(titleDom)[1]) # <<>>) =>
                (lettersCleanup' /\ scrollObservers' = 1)]_vars

\* A mount effect has run while the refs held no element.
C18_Witness ==
    /\ ~refsAttached
    /\ handler \in {"effect", "heroEffect", "lettersEffect"}

\* No two points of the set are within connectDistance of each other.
NoValidPair(pts) ==
    \A i, j \in 1..Len(pts) :
        i # j => DistSq(pts[i], pts[j]) > settings.connectDistance * settings.connectDistance

\* C19: a run of spawnRandomLine on a point set without a valid pair adds no
\* line, and a run that adds no line leaves the active lines, the active
\* explosions, the points, the running tweens and the subscriptions as they
\* were.
C19_FailedSpawnChangesNothing ==
    [][handler' = "spawnRandomLine" =>
          /\ NoValidPair(points) => activeLines' = activeLines
          /\ activeLines' = activeLines =>
                UNCHANGED <<activeExplosions, points, droppedLines, droppedExplosions,
                            canvasSize, isInitialized, tickerSubs, spawnTimers,
                            resizeListeners>>]_vars

\* spawnRandomLine has passed its guard on points that are all too far apart.
C19_Witness ==
    /\ handler = "spawnRandomLine"
    /\ SpawnGuard(points, activeLines)
    /\ NoValidPair(points)

\* C20: in every frame, each explosion in the collection when the frame's
\* loop starts is updated and drawn exactly once, whether or not an explosion
\* before it is removed in that frame.
C20_EachExplosionVisitedOnce ==
    handler = "animate" =>
        \A i \in 1..Len(heroFrameVisits) : heroFrameVisits[i] = 1

\* The states of a letter as its style shows them: Hidden as gsap.set leaves
\* it (line 59), Gone with opacity 0 otherwise, Settled with the plain style,
\* Entering while the entrance tween runs on it.
Hidden(el) ==
    letterStyle[el].opacity = 0 /\ letterStyle[el].y = EntranceOffset * FallDivisor

Gone(el) == letterStyle[el].opacity = 0 /\ ~Hidden(el)

Settled(el) == letterStyle[el] = PlainStyle

Entering(el) ==
    \E i \in 1..Len(letterTweens) :
        /\ letterTweens[i].kind = "entrance"
        /\ \E k \in 1..Len(letterTweens[i].parts) : letterTweens[i].parts[k].el = el

\* Gone is entered only when the tween of onLeave ends.
GoneOnlyByLeave ==
    [][\A el \in 1..Len(letterStyle) :
          (el \in DOMAIN letterStyle' /\ ~Gone(el) /\ Gone(el)') =>
              (handler' = "letterTween" /\ Head(letterTweens).kind = "leave")]_vars

\* Gone is left only for Settled (or for Hidden, by a new run of the effect).
GoneOnlyToSettled ==
    [][\A el \in 1..Len(letterStyle) :
          (el \in DOMAIN letterStyle' /\ Gone(el) /\ ~Gone(el)') =>
              (Settled(el)' \/ handler' = "lettersEffect")]_vars

\* Only a run of the effect makes a letter Hidden, and an onUpdate that
\* arrives while a letter is Entering sends it to a visible style.
NoReturnToHidden ==
    [][\A el \in 1..Len(letterStyle) :
          /\ (el \in DOMAIN letterStyle' /\ ~Hidden(el) /\ Hidden(el)') =>
                handler' = "lettersEffect"
          /\ (Entering(el) /\ handler' = "onUpdate") =>
                \A k \in 1..Len(LastTween'.parts) :
                    LastTween'.parts[k].el = el => LastTween'.parts[k].to.opacity > 0]_vars

\* C21: each letter follows Hidden -> Entering -> Settled <-> Falling -> Gone:
\* Gone is entered only by the leave event's tween and left only for Settled,
\* and a scroll update during Entering does not return the letter to Hidden.
C21_LetterStateMachine ==
    GoneOnlyByLeave /\ GoneOnlyToSettled /\ NoReturnToHidden

\* The tweens in flight that animate the element el.
TweensOn(tweens, el) ==
    {i \in 1..Len(tweens) :
        \E k \in 1..Len(tweens[i].parts) : tweens[i].parts[k].el = el}

\* C22: when an onUpdate has run, each letter has exactly one tween in flight,
\* the one the update started: whatever ran on the letter before (entrance,
\* update, leave or enter-back tween) has been killed.
C22_UpdateOverwrites ==
    [][handler' = "onUpdate" =>
          \A i \in 1..Len(lettersRef') :
              /\ Cardinality(TweensOn(letterTweens', lettersRef'[i])) = 1
              /\ \A t \in TweensOn(letterTweens', lettersRef'[i]) :
                    letterTweens'[t].kind = "update"]_vars

\* An onUpdate has run on a letter whose entrance had not finished: the letter
\* is as gsap.set left it and the entrance tween is gone.
C22_Witness ==
    /\ handler = "onUpdate"
    /\ \E i \in 1..Len(lettersRef) :
          /\ Hidden(lettersRef[i])
          /\ ~Entering(lettersRef[i])
          /\ Cardinality(TweensOn(letterTweens, lettersRef[i])) = 1

\* 1 / 2.4 in units of 1 / FallDivisor.
FallCeiling == (10 * FallDivisor) \div 24

\* C25: for a scroll progress in [0, 1] and a delay factor in [0, 0.6) the
\* fall progress of an onUpdate is at most 1 / 2.4, so the tween it starts
\* sends the letter to an opacity of at least 1 - 1 / 2.4; and a tween that
\* brings a letter to opacity 0 is the tween of onLeave.
C25_UpdateNeverFullyFalls ==
    [][/\ handler' \in {"onUpdate", "onLeave", "onEnterBack"} =>
             \A i \in 1..Len(letterParams') :
                /\ FallProgress(scrollProgress', letterParams'[i].randomDelayFactor)
                      <= FallCeiling
                /\ FallTarget(letterParams'[i], scrollProgress').opacity
                      >= FallDivisor - FallCeiling
       /\ \A t \in 1..Len(letterTweens') :
             letterTweens'[t].kind = "update" =>
                \A k \in 1..Len(letterTweens'[t].parts) :
                    letterTweens'[t].parts[k].to.opacity >= FallDivisor - FallCeiling
       /\ \A el \in 1..Len(letterStyle) :
             (el \in DOMAIN letterStyle' /\ letterStyle[el].opacity # 0
                 /\ letterStyle'[el].opacity = 0 /\ handler' = "letterTween") =>
                Head(letterTweens).kind = "leave"]_vars

\* An onUpdate with progress 1 has run for a letter without delay: its fall
\* progress is the largest there is.
C25_Witness ==
    /\ handler = "onUpdate"
    /\ scrollProgress = 100
    /\ \E i \in 1..Len(letterParams) :
          /\ letterParams[i].randomDelayFactor = 0
          /\ \E k \in 1..Len(LastTween.parts) :
                /\ LastTween.parts[k].el = lettersRef[i]
                /\ LastTween.parts[k].to.opacity = FallDivisor - FallCeiling

\* The lines whose tween is running, in the active lines or dropped from them.
LinesRunning ==
    Cardinality({i \in 1..Len(activeLines) : activeLines[i].tweening})
    + BagCardinality(droppedLines)

\* The explosion e is at the target of a line with these fields, in its color.
AtTarget(e, x, y, color) == e.x = x /\ e.y = y /\ e.color = color

\* A step that adds to the active explosions adds one, at the end, and is the
\* completion of a line's tween: of an active line, of a dropped line, or of a
\* line completed inside its constructor; and every completion adds one.
CreatedByCompletingComet ==
    [][LET n == Len(activeExplosions)
           m == Len(activeExplosions')
           k == Len(activeLines')
       IN  /\ m > n =>
                /\ m = n + 1
                /\ \A i \in 1..n : activeExplosions'[i] = activeExplosions[i]
                /\ \/ /\ handler' = "lineTween"
                      /\ LinesRunning' = LinesRunning - 1
                      /\ \/ \E i \in 1..Len(activeLines) :
                               /\ activeLines[i].tweening
                               /\ Len(activeLines') = Len(activeLines) - 1
                               /\ AtTarget(activeExplosions'[m], activeLines[i].p2.x,
                                           activeLines[i].p2.y, activeLines[i].color)
                         \/ \E d \in BagToSet(droppedLines) :
                               /\ droppedLines' = droppedLines (-) One(d)
                               /\ AtTarget(activeExplosions'[m], d.x, d.y, d.color)
                   \/ /\ handler' = "spawnRandomLine"
                      /\ k = Len(activeLines) + 1
                      /\ ~activeLines'[k].tweening
                      /\ AtTarget(activeExplosions'[m], activeLines'[k].p2.x,
                                  activeLines'[k].p2.y, activeLines'[k].color)
           /\ LinesRunning' < LinesRunning => m = n + 1
           /\ (k > Len(activeLines) /\ ~activeLines'[k].tweening) => m = n + 1]_vars

\* No explosion whose tween has ended is in the active explosions: the end of
\* the tween is what removes an explosion, so one that is in the collection
\* with its tween ended stays there whatever the clock does.
NoFinishedExplosionKept ==
    \A i \in 1..Len(activeExplosions) : activeExplosions[i].progress < ExplosionScale

\* C23: an explosion is created only by a completing comet, one per comet, at
\* the comet's target and in its color, and every explosion in the active
\* explosions is removed when its tween ends.
C23_ExplosionLifecycle ==
    CreatedByCompletingComet /\ []NoFinishedExplosionKept

\* C24: a call of spawnRandomLine that passes its guard tests at most
\* maxAttempts candidate pairs against connectDistance before it gives up.
C24_SpawnTestsAtMostMaxAttempts ==
    (handler = "spawnRandomLine" /\ SpawnGuard(points, activeLines)) =>
        SpawnPairsTested(points) <= maxAttempts

==========================================================================
